---- MODULE Spec2Model ----
(***************************************************************************)
(* A model of gv-nfo-maker's generator workflow (src/src/core,             *)
(* src/src/generators): BaseNfoGenerator.run and the steps it calls, the   *)
(* three site generators' scrape_movie_info, the MovieData constructor and *)
(* the NFO template's validation.                                          *)
(*                                                                         *)
(* Text is modelled as follows.  A URL is the sequence of its tokens, so   *)
(* that "site_domain in url" and the product-id patterns are computed on   *)
(* the URL and not looked up.  A date is the sequence of its "-"-separated *)
(* segments (what str.split("-") returns), the empty text being << >>.     *)
(* Other texts are strings; the Chinese literals of the source are written *)
(* in ASCII and named after the literal they stand for.                    *)
(***************************************************************************)
EXTENDS Integers, Sequences, FiniteSets, TLC

VARIABLES
    site,          \* the class of the generator instance
    config,        \* self.config
    run_mode,      \* self.run_mode
    movie_data,    \* self.movie_data
    pc,            \* where the current run call stands
    url,           \* the argument of the current (or last) run call
    page,          \* what the current run's request fetched ("none" before)
    scrape_result, \* how scrape_movie_info left in the current run
    last_choice,   \* the operator's latest answer at the y/n/auto prompt
    log,           \* the calls the current run made, in order
    http_gets,     \* HTTP GETs issued by the current run
    result,        \* what the last run call returned
    raised,        \* the exception the last run call let through, or "none"
    caught,        \* the exception the last run call caught, or "none"
    files,         \* the names of the files on disk
    start_mode,    \* run_mode when the current run was entered
    runs,          \* run calls made on this instance
    clock_year,    \* datetime.now().year, as text
    rendered,      \* outcome of the last create_nfo_xml call on movie_data
    data,          \* a MovieData that a caller of the template library built
    renders,       \* the create_nfo_xml calls made on data, in order
    default_values,\* the class attribute NFOTemplate.DEFAULT_VALUES, one dict
    templates,     \* the names registered in the TemplateManager, {} before it
    rating_in,     \* the argument of the first sanitize_rating call
    sanitized,     \* the results of sanitize_rating, each call on the last result
    site_profiles, \* the dicts held by the module-level SITE_CONFIGS
    cm_config,     \* config_manager.config
    cm_added,      \* the entries of config_manager.site_configs beyond SITE_CONFIGS
    cm_last,       \* the last ConfigManager operation
    cm_ops,        \* ConfigManager operations made in this process
    factory_calls, \* the GeneratorFactory calls made and their outcomes, in order
    main_args,     \* the parsed command line of main()
    main_pc,       \* "idle" before main(), "running" while it is in run, "exited"
    main_path,     \* the way main() left
    exit_code,     \* << >>, or the value main() returned
    menu_pc,       \* "off", "menu" while interactive_mode shows its menu, "ended"
    menu_log,      \* the choices made at the menu and what each led to, in order
    year_in,       \* a value handed to the year validators
    year_out       \* how validate_field('year', v) and validate_year(v) ended

\* the state of a generator instance and of its run calls
run_vars == <<site, config, run_mode, movie_data, pc, url, page, scrape_result,
              last_choice, log, http_gets, result, raised, caught, files,
              start_mode, runs, clock_year, rendered>>

\* the state of the library components used without a generator
template_vars == <<data, renders, default_values, templates>>
rating_vars == <<rating_in, sanitized>>

cfg_vars == <<site_profiles, cm_config, cm_added, cm_last, cm_ops>>

factory_vars == <<factory_calls>>

main_vars == <<main_args, main_pc, main_path, exit_code>>

menu_vars == <<menu_pc, menu_log>>
val_vars == <<year_in, year_out>>

lib_vars == <<template_vars, rating_vars, cfg_vars, factory_vars, main_vars,
              menu_vars, val_vars>>

vars == <<run_vars, lib_vars>>

----------------------------------------------------------------------------
(* Bounds of the model *)

\* run calls made on one generator instance
MaxRuns == 2

\* create_nfo_xml calls made on one caller-built MovieData
MaxRenders == 2

\* sanitize_rating calls chained on one input
MaxSanitize == 2

\* ConfigManager operations made in one process
MaxConfigOps == 3

\* calls made on one GeneratorFactory
MaxFactoryCalls == 2
MaxActors == 3
MaxMenuChoices == 2
MaxYearLen == 4

----------------------------------------------------------------------------
(* Values *)

None == "None"

\* an attribute the object does not have (reading it raises AttributeError)
NoAttr == "<no attribute>"

RunModes == {"auto", "manual", "interactive"}

Sites == {"ck-download", "trance-music", "gay-torrents", "contract"}

\* "retry_attempts": 3
RetryAttempts == 3

\* Exception classes that occur, and those derived from the two bases
NFOGeneratorErrors == {"ScrapingError", "ValidationError", "NetworkError",
                       "ConfigurationError"}
ExceptionKinds == NFOGeneratorErrors \cup
                  {"TypeError", "AttributeError", "EOFError", "OSError"}
BaseExceptionKinds == ExceptionKinds \cup {"KeyboardInterrupt"}

\* str.isdigit() on the year texts that occur
DigitTexts == {"2023", "2026", "2020", "1999"}
isdigit(s) == s \in DigitTexts

\* the decimal tokens and hexadecimal tokens that occur in URLs
DecimalTokens == {"26966", "39661", "7"}
HexTokens == {"a1f"} \cup DecimalTokens

----------------------------------------------------------------------------
(* URLs *)

UrlCkDetail == <<"https://", "ck-download", ".com", "/", "product/detail/", "26966">>
UrlCkOther  == <<"https://", "ck-download", ".com", "/", "about">>
UrlTrance   == <<"https://www.", "trance", "-video", ".com", "/", "product/detail/", "39661">>
UrlTorrent  == <<"https://www.", "gay-torrents", ".net", "/", "torrentdetails.php", "?", "torrentid=", "a1f">>
UrlOther    == <<"https://", "example", ".org", "/", "movie", "/", "7">>

Urls == {UrlCkDetail, UrlCkOther, UrlTrance, UrlTorrent, UrlOther}

\* d occurs in u as a contiguous run of tokens: Python's "d in u"
Contains(d, u) ==
    \E i \in 1..(Len(u) + 1) :
        /\ i + Len(d) - 1 <= Len(u)
        /\ \A k \in 1..Len(d) : u[i + k - 1] = d[k]

site_name(s) ==
    CASE s = "ck-download"  -> "CK-Download"
      [] s = "trance-music" -> "Trance-Video"
      [] s = "gay-torrents" -> "Gay-Torrents"
      [] OTHER              -> "Example"

site_domain(s) ==
    CASE s = "ck-download"  -> <<"ck-download">>
      [] s = "trance-music" -> <<"trance", "-video", ".com">>
      [] s = "gay-torrents" -> <<"gay-torrents", ".net">>
      [] OTHER              -> <<"example", ".org">>

\* validate_url under a plausible slip: every URL accepted
validate_url_any(s, u) == TRUE

validate_url(s, u) == Contains(site_domain(s), u)

\* the token after the first match of the token sequence pre, when it is in
\* the class cls; None when the pattern matches nowhere
SearchGroup(pre, cls, u) ==
    LET hits == {i \in 1..Len(u) :
                    /\ i + Len(pre) <= Len(u)
                    /\ \A k \in 1..Len(pre) : u[i + k - 1] = pre[k]
                    /\ u[i + Len(pre)] \in cls}
    IN  IF hits = {} THEN None
        ELSE LET i == CHOOSE j \in hits : \A h \in hits : j <= h
             IN  u[i + Len(pre)]

\* r"/(\d+)/?$": a decimal token after "/" that ends the URL, or is followed
\* by a final "/"
TrailingNumber(u) ==
    LET n == Len(u)
    IN  IF n >= 2 /\ u[n] \in DecimalTokens /\ u[n - 1] = "/" THEN u[n]
        ELSE IF n >= 3 /\ u[n] = "/" /\ u[n - 1] \in DecimalTokens /\ u[n - 2] = "/"
             THEN u[n - 1]
        ELSE None

extract_product_id(s, u) ==
    CASE s = "ck-download"  -> SearchGroup(<<"product/detail/">>, DecimalTokens, u)
      [] s = "trance-music" ->
            IF SearchGroup(<<"/", "product/detail/">>, DecimalTokens, u) # None
            THEN SearchGroup(<<"/", "product/detail/">>, DecimalTokens, u)
            ELSE TrailingNumber(u)
      [] s = "gay-torrents" -> SearchGroup(<<"torrentid=">>, HexTokens, u)
      [] OTHER              -> TrailingNumber(u)

\* Python's "a or b" on texts, None being falsy like ""
Or(a, b) == IF a = None \/ a = "" THEN b ELSE a

----------------------------------------------------------------------------
(* MovieData *)

\* the fields the dataclass declares: the keywords its constructor accepts
DeclaredFields ==
    {"title", "original_title", "sort_title", "product_id", "year", "plot",
     "outline", "tagline", "runtime", "premiered", "release_date", "mpaa",
     "certification", "studio", "country", "director", "credits", "trailer",
     "thumb", "fanart", "genres", "tags", "actors", "ratings", "user_rating",
     "top250", "set_name", "unique_ids", "date_added", "series_name", "maker",
     "label", "artist", "album", "track_number"}

\* The declared defaults of the fields the model keeps.  The other declared
\* fields are plain storage that no modelled operation reads.  imdb_id is not
\* declared: an instance has it only once some caller assigns it.
FieldDefaults ==
    [title |-> "", original_title |-> "", product_id |-> "", year |-> "",
     runtime |-> "0", premiered |-> << >>, release_date |-> << >>,
     mpaa |-> "TV-MA", studio |-> "", director |-> "", credits |-> "",
     genres |-> << >>, tags |-> << >>, actors |-> << >>, imdb_id |-> NoAttr]

StoredFields == DOMAIN FieldDefaults \ {"imdb_id"}

\* premiered.split("-")[0]
FirstSegment(d) == IF d = << >> THEN "" ELSE d[1]

\* __post_init__ (each rule writes a field that no other rule reads)
post_init(m) ==
    [m EXCEPT !.original_title = IF @ = "" THEN m.title ELSE @,
              !.year = IF @ = "" /\ m.premiered # << >> THEN FirstSegment(m.premiered) ELSE @,
              !.release_date = IF @ = << >> THEN m.premiered ELSE @,
              !.credits = IF @ = "" THEN m.director ELSE @]

\* MovieData(**kw): a keyword that is no declared field is a TypeError
MovieData(kw) ==
    IF DOMAIN kw \subseteq DeclaredFields
    THEN [err |-> "none",
          md  |-> post_init([f \in DOMAIN FieldDefaults |->
                               IF f \in DOMAIN kw /\ f \in StoredFields
                               THEN kw[f] ELSE FieldDefaults[f]])]
    ELSE [err |-> "TypeError", md |-> None]

EmptyMovieData == MovieData([title |-> ""]).md

validate(m) == m.title # "" /\ m.year # "" /\ isdigit(m.year)

\* a slip: the order counted from one
add_actor_counting_from_one(m, name, role) ==
    [m EXCEPT !.actors = Append(m.actors,
                                [name |-> name, role |-> role, order |-> Len(m.actors) + 1])]

add_actor(m, name, role) ==
    [m EXCEPT !.actors = Append(m.actors,
                                [name |-> name, role |-> role, order |-> Len(m.actors)])]

----------------------------------------------------------------------------
(* The request and the fetched page *)

NetOutcomes == {"ok", "fail"}

\* make_request under a plausible slip: a failed GET is repeated
\* retry_attempts times
make_request_retrying(cfg, net) ==
    [gets |-> IF net = "ok" THEN 1 ELSE 1 + cfg.retry_attempts,
     err  |-> IF net = "ok" THEN "none" ELSE "NetworkError"]

\* make_request: one session.get; a RequestException becomes NetworkError.
\* net is how the server answers this URL.
make_request(cfg, net) ==
    [gets |-> 1,
     err  |-> IF net = "ok" THEN "none" ELSE "NetworkError"]

SampleDate == <<"2020", "05", "06">>

\* What the selectors find in a fetched page: the heading text (None when
\* there is none), the product-number cell ("" when there is none), the date
\* div's match of (\d{4})\.(\d{2})\.(\d{2}) (<< >> when there is none), the
\* category anchors' texts, and whether the text holds a login notice.
BarePage(h) ==
    [h3 |-> h, product_number |-> "", date |-> << >>, categories |-> << >>,
     login |-> FALSE]

FullPage(h) ==
    [h3 |-> h, product_number |-> "", date |-> SampleDate,
     categories |-> <<"Action">>, login |-> FALSE]

LoginPage == [BarePage(None) EXCEPT !.login = TRUE]

Pages == {BarePage("Sample Movie"), BarePage(None), FullPage("Sample Movie"), LoginPage}

\* the pages a site is tried with: the login notice is read only by the
\* Gay-Torrents generator
PagesOf(s) == IF s = "gay-torrents" THEN Pages ELSE Pages \ {LoginPage}

NoPage == [fetched |-> FALSE]

----------------------------------------------------------------------------
(* CK-Download: the extraction helpers and scrape_movie_info *)

UnknownTitle == "unknown title"
DefaultGenres == <<"drama", "romance">>

ck_extract_title(p) == IF p.h3 # None THEN p.h3 ELSE UnknownTitle

ck_extract_product_number(p) == p.product_number

ck_extract_tags(p) == IF p.categories # << >> THEN p.categories ELSE DefaultGenres

ck_extract_premiered(p, yr) == IF p.date # << >> THEN p.date ELSE <<yr, "01", "01">>

ck_extract_year(p, yr) ==
    IF ck_extract_premiered(p, yr) # << >>
    THEN FirstSegment(ck_extract_premiered(p, yr)) ELSE yr

\* the keywords of the MovieData(...) call of scrape_movie_info
\* the title, with the product number before it when there is one
ck_title(p) ==
    IF ck_extract_product_number(p) # ""
    THEN ck_extract_product_number(p) \o " " \o ck_extract_title(p)
    ELSE ck_extract_title(p)

ck_keywords(u, p, yr) ==
        [title |-> ck_title(p), original_title |-> ck_title(p),
         product_id |-> Or(extract_product_id("ck-download", u), "26966"),
         year |-> ck_extract_year(p, yr), plot |-> "no plot", outline |-> "",
         genres |-> ck_extract_tags(p), runtime |-> "120",
         studio |-> site_name("ck-download"),
         release_date |-> ck_extract_premiered(p, yr),
         poster |-> "",
         imdb_id |-> "CK-" \o Or(extract_product_id("ck-download", u), "26966")]

\* list.extend on the tags, after reading movie_data.imdb_id
extend_tags(m, more) ==
    IF m.imdb_id = NoAttr
    THEN [err |-> "AttributeError", md |-> m]
    ELSE [err |-> "none", md |-> [m EXCEPT !.tags = m.tags \o <<m.imdb_id>> \o more]]

\* The outcome of a scrape_movie_info call: ret is "True", "False" or
\* "raise" (then err is the exception), md the data model it leaves in
\* self.movie_data, gets the GETs it issued.
Raise(e, m, n) == [ret |-> "raise", err |-> e, md |-> m, gets |-> n]
Return(b, m, n) == [ret |-> b, err |-> "none", md |-> m, gets |-> n]

\* the two placeholder actors and the tags, then "return True"; any
\* exception in the try block other than NetworkError becomes ScrapingError
tagged(t, a, n) ==
    IF t.err # "none" THEN Raise("ScrapingError", a, n) ELSE Return("True", t.md, n)

ck_populate(a, n) == tagged(extend_tags(a, <<"domestic", "CK-Download">>), a, n)

\* c: what the MovieData(...) call gave
ck_constructed(c, n, old) ==
    IF c.err # "none" THEN Raise("ScrapingError", old, n)
    ELSE ck_populate(add_actor(add_actor(c.md, "actor1", "Actor"), "actor2", "Actor"), n)

\* req: what make_request gave
ck_requested(req, u, p, yr, old) ==
    IF req.err # "none" THEN Raise("NetworkError", old, req.gets)
    ELSE ck_constructed(MovieData(ck_keywords(u, p, yr)), req.gets, old)

ck_scrape_movie_info(cfg, u, net, p, yr, old) ==
    ck_requested(make_request(cfg, net), u, p, yr, old)

----------------------------------------------------------------------------
(* Trance: scrape_movie_info.  The values its helpers extract are not       *)
(* modelled beyond the title: the constructor call decides the outcome.    *)

trance_keywords(u, p, yr) ==
    [title |-> Or(p.h3, "unknown video title"),
     original_title |-> Or(p.h3, "unknown video title"),
     product_id |-> Or(extract_product_id("trance-music", u), "unknown"),
     year |-> yr, plot |-> "adult video", outline |-> "",
     genres |-> <<"GV", "adult", "Japan">>, runtime |-> "30",
     studio |-> site_name("trance-music"),
     release_date |-> <<yr, "01", "01">>,
     poster |-> "", maker |-> "", label |-> site_name("trance-music"),
     series_name |-> "",
     imdb_id |-> "GV-" \o Or(extract_product_id("trance-music", u), "unknown")]

trance_tagged(t, a, n) ==
    IF t.err # "none" THEN Raise("ScrapingError", a, n)
    ELSE Return("True", [t.md EXCEPT !.mpaa = "XXX"], n)

trance_populate(a, n) ==
    trance_tagged(extend_tags(a, <<"adult video", "Japan", "GV">>), a, n)

trance_constructed(c, n, old) ==
    IF c.err # "none" THEN Raise("ScrapingError", old, n)
    ELSE trance_populate(add_actor(c.md, "unknown performer", "Actor"), n)

trance_requested(req, u, p, yr, old) ==
    IF req.err # "none" THEN Raise("NetworkError", old, req.gets)
    ELSE trance_constructed(MovieData(trance_keywords(u, p, yr)), req.gets, old)

trance_scrape_movie_info(cfg, u, net, p, yr, old) ==
    trance_requested(make_request(cfg, net), u, p, yr, old)

----------------------------------------------------------------------------
(* Gay-Torrents: scrape_movie_info and _generate_default_info *)

\* datetime.now().strftime("%Y-%m-%d")
today(yr) == <<yr, "11", "02">>

gt_id(u) == Or(extract_product_id("gay-torrents", u), "unknown")

gt_default_keywords(u, yr) ==
        [title |-> "Gay Torrents Movie " \o gt_id(u),
         original_title |-> "Gay Torrents Movie " \o gt_id(u),
         product_id |-> gt_id(u), year |-> yr, plot |-> "no details",
         outline |-> "Gay Torrents", genres |-> <<"Adult", "Gay">>,
         runtime |-> "120", studio |-> site_name("gay-torrents"),
         release_date |-> today(yr), poster |-> "",
         imdb_id |-> "GT-" \o gt_id(u)]

gt_keywords(u, p, yr) ==
    [title |-> Or(p.h3, "Unknown Gay Torrents Movie"),
     original_title |-> Or(p.h3, "Unknown Gay Torrents Movie"),
     product_id |-> gt_id(u),
     year |-> yr, plot |-> "no details", outline |-> "",
     genres |-> <<"Adult", "Gay">>, runtime |-> "120",
     studio |-> site_name("gay-torrents"),
     release_date |-> today(yr), poster |-> "",
     imdb_id |-> "GT-" \o gt_id(u)]

gt_tags == <<"Gay", "Adult", "Gay-Torrents">>

gt_tagged(t, a, n) ==
    IF t.err # "none" THEN Raise(t.err, a, n) ELSE Return("True", t.md, n)

gt_default_constructed(c, n, old) ==
    IF c.err # "none" THEN Raise(c.err, old, n)
    ELSE gt_tagged(extend_tags(c.md, gt_tags), c.md, n)

\* _generate_default_info: nothing in it is caught
generate_default_info(u, yr, n, old) ==
    gt_default_constructed(MovieData(gt_default_keywords(u, yr)), n, old)

gt_populate(a, n) == gt_tagged(extend_tags(a, gt_tags), a, n)

gt_constructed(c, n, old) ==
    IF c.err # "none" THEN Raise(c.err, old, n)
    ELSE gt_populate(add_actor(c.md, "Unknown Performer", "Actor"), n)

\* the try block: the request, the login check, the extraction
gt_requested(req, u, p, yr, old) ==
    IF req.err # "none" THEN Raise(req.err, old, req.gets)
    ELSE IF p.login THEN generate_default_info(u, yr, req.gets, old)
    ELSE gt_constructed(MovieData(gt_keywords(u, p, yr)), req.gets, old)

\* "except Exception": whatever the try block raised, the default record
gt_handled(r, u, yr) ==
    IF r.ret = "raise" /\ r.err \in ExceptionKinds
    THEN generate_default_info(u, yr, r.gets, r.md)
    ELSE r

gt_scrape_movie_info(cfg, u, net, p, yr, old) ==
    gt_handled(gt_requested(make_request(cfg, net), u, p, yr, old), u, yr)

----------------------------------------------------------------------------
(* A generator that keeps the abstract contract of scrape_movie_info: it    *)
(* performs the request, then either populates the data model and returns  *)
(* True, returns False, or raises ScrapingError; a failed request raises   *)
(* NetworkError.  how is the outcome of its extraction.                    *)

ContractOutcomes == {"True", "TrueWithId", "False", "ScrapingError"}

\* the data model such a generator populates from the page; with_id: it
\* also assigns movie_data.imdb_id, as the site generators mean to
contract_data(u, p, yr, with_id) ==
    [MovieData([title |-> Or(p.h3, ""),
                product_id |-> Or(extract_product_id("contract", u), "unknown"),
                year |-> yr, runtime |-> "90", studio |-> site_name("contract"),
                premiered |-> p.date, genres |-> p.categories]).md
        EXCEPT !.imdb_id = IF with_id THEN "GV-001" ELSE @]

contract_requested(req, u, p, yr, old, how) ==
    IF req.err # "none" THEN Raise("NetworkError", old, req.gets)
    ELSE IF how = "ScrapingError" THEN Raise("ScrapingError", old, req.gets)
    ELSE IF how = "False" THEN Return("False", old, req.gets)
    ELSE Return("True", contract_data(u, p, yr, how = "TrueWithId"), req.gets)

contract_scrape_movie_info(cfg, u, net, p, yr, old, how) ==
    contract_requested(make_request(cfg, net), u, p, yr, old, how)

scrape_movie_info(s, cfg, u, net, p, yr, old, how) ==
    CASE s = "ck-download"  -> ck_scrape_movie_info(cfg, u, net, p, yr, old)
      [] s = "trance-music" -> trance_scrape_movie_info(cfg, u, net, p, yr, old)
      [] s = "gay-torrents" -> gt_scrape_movie_info(cfg, u, net, p, yr, old)
      [] OTHER              -> contract_scrape_movie_info(cfg, u, net, p, yr, old, how)

----------------------------------------------------------------------------
(* The console: the y/n/auto prompt and the correction dialogue *)

\* what input() gives at the prompt: a typed line, or the exception it
\* raises when the input ends or the operator interrupts
TypedLines == {"y", "YES", "n", " Auto ", "zidong", "maybe"}
InputFailures == {"EOFError", "KeyboardInterrupt"}

\* .lower().strip() on the typed lines
lower_strip(line) ==
    CASE line = "YES"    -> "yes"
      [] line = " Auto " -> "auto"
      [] OTHER           -> line

YesAnswers  == {"y", "yes", "shi"}
NoAnswers   == {"n", "no", "fou"}
AutoAnswers == {"auto", "zidong"}

\* _should_manual_correct under a plausible slip: the auto answer returns
\* without switching the mode
prompt_answer_no_switch(line, mode) ==
    LET choice == lower_strip(line)
    IN  IF choice \in YesAnswers THEN [ret |-> "True", mode |-> mode]
        ELSE IF choice \in NoAnswers THEN [ret |-> "False", mode |-> mode]
        ELSE IF choice \in AutoAnswers THEN [ret |-> "False", mode |-> mode]
        ELSE [ret |-> "again", mode |-> mode]

\* _should_manual_correct under a plausible slip: a plain "no" also
\* switches the generator to auto
prompt_answer_no_is_auto(line, mode) ==
    LET choice == lower_strip(line)
    IN  IF choice \in YesAnswers THEN [ret |-> "True", mode |-> mode]
        ELSE IF choice \in NoAnswers \cup AutoAnswers THEN [ret |-> "False", mode |-> "auto"]
        ELSE [ret |-> "again", mode |-> mode]

\* one turn of the loop of _should_manual_correct on a typed line: what it
\* returns ("again": it asks once more) and the run_mode it leaves
prompt_answer(line, mode) ==
    LET choice == lower_strip(line)
    IN  IF choice \in YesAnswers THEN [ret |-> "True", mode |-> mode]
        ELSE IF choice \in NoAnswers THEN [ret |-> "False", mode |-> mode]
        ELSE IF choice \in AutoAnswers THEN [ret |-> "False", mode |-> "auto"]
        ELSE [ret |-> "again", mode |-> mode]

\* The operator's answers to the dialogue's prompts, already stripped: a
\* text ("" keeps the current value), and for the two lists whether to
\* replace them and by what.
Answers ==
    {a \in [title : {"", "Fixed"}, year : {"", "n/a"}, premiered : {<< >>},
            director : {""}, runtime : {""},
            modify_actors : BOOLEAN, actors : {<<"A", "B">>},
            modify_genres : BOOLEAN, genres : {<<"Drama">>}] :
        a.modify_actors = a.modify_genres}

\* the numbers of prompts after which the model lets input() fail
StopPoints == {0, 2}

\* the prompts of the dialogue that the model keeps, in order
Prompts == <<"title", "year", "director", "runtime", "premiered", "actors", "genres">>

RECURSIVE add_actors(_, _)
add_actors(m, names) ==
    IF names = << >> THEN m
    ELSE add_actors(add_actor(m, Head(names), "role"), Tail(names))

\* the effect of one prompt of manual_input_correction
apply_prompt(m, name, a) ==
    CASE name = "title" ->
            IF a.title # "" THEN [m EXCEPT !.title = a.title, !.original_title = a.title] ELSE m
      [] name = "year" -> IF a.year # "" THEN [m EXCEPT !.year = a.year] ELSE m
      [] name = "director" ->
            IF a.director # "" THEN [m EXCEPT !.director = a.director, !.credits = a.director] ELSE m
      [] name = "runtime" -> IF a.runtime # "" THEN [m EXCEPT !.runtime = a.runtime] ELSE m
      [] name = "premiered" ->
            IF a.premiered # << >>
            THEN [m EXCEPT !.premiered = a.premiered, !.release_date = a.premiered] ELSE m
      [] name = "actors" ->
            IF a.modify_actors THEN add_actors([m EXCEPT !.actors = << >>], a.actors) ELSE m
      [] name = "genres" ->
            IF a.modify_genres THEN [m EXCEPT !.genres = a.genres] ELSE m

RECURSIVE apply_prompts(_, _, _, _)
apply_prompts(m, a, k, n) ==
    IF k > n THEN m ELSE apply_prompts(apply_prompt(m, Prompts[k], a), a, k + 1, n)

\* manual_input_correction with the answers a, input() failing with the
\* exception stop at prompt number answered + 1 (stop = "none": no failure)
manual_input_correction(m, a, answered, stop) ==
    [md  |-> apply_prompts(m, a, 1, answered),
     err |-> IF answered < Len(Prompts) THEN stop ELSE "none"]

----------------------------------------------------------------------------
(* create_nfo_file *)

\* how the file system answers open() and write()
IoOutcomes == {"ok", "open fails", "write fails"}

\* create_nfo_file(): the exception it raises or "none", the file name, and
\* what it leaves on disk under that name
create_nfo_file(m, io) ==
    IF ~validate(m)
    THEN [err |-> "ValidationError", name |-> None, disk |-> "none"]
    ELSE [err  |-> IF io = "ok" THEN "none" ELSE "OSError",
          name |-> m.title \o ".nfo",
          disk |-> IF io = "open fails" THEN "none"
                   ELSE IF io = "ok" THEN "written" ELSE "partial"]

----------------------------------------------------------------------------
(* The NFO templates *)

TemplateNames == {"standard", "adult", "music"}

REQUIRED_FIELDS == {"title"}

\* validate_data under a plausible slip: no field is required
validate_data_none_required(m) == "none"

\* validate_data: ValidationError when a required field is empty
validate_data(m) ==
    IF \E f \in REQUIRED_FIELDS : m[f] = "" THEN "ValidationError" ELSE "none"

NonEmpty(x) == x # ""

\* _add_genres under a plausible slip: GV is appended, not inserted in front
add_genres_appending(m) ==
    LET genres == IF m.genres # << >> THEN m.genres ELSE <<"GV">>
        forced == IF \E i \in 1..Len(genres) : genres[i] = "GV"
                  THEN genres ELSE genres \o <<"GV">>
    IN  [emitted |-> SelectSeq(forced, NonEmpty),
         stored  |-> IF m.genres # << >> THEN forced ELSE m.genres]

\* _add_genres under a plausible slip: GV is inserted without looking for it
add_genres_always_inserting(m) ==
    LET genres == IF m.genres # << >> THEN m.genres ELSE << >>
        forced == <<"GV">> \o genres
    IN  [emitted |-> SelectSeq(forced, NonEmpty),
         stored  |-> IF m.genres # << >> THEN forced ELSE m.genres]

\* _add_genres: the elements it emits and the list it leaves in the data
\* model (insert(0, 'GV') acts on the stored list when that is not empty)
add_genres(m) ==
    LET genres == IF m.genres # << >> THEN m.genres ELSE <<"GV">>
        forced == IF \E i \in 1..Len(genres) : genres[i] = "GV"
                  THEN genres ELSE <<"GV">> \o genres
    IN  [emitted |-> SelectSeq(forced, NonEmpty),
         stored  |-> IF m.genres # << >> THEN forced ELSE m.genres]

\* _add_tags under a plausible slip: the stored tags are not compared with
\* imdb_id
add_tags_keeping_id(m) ==
    LET first == IF m.imdb_id # "" /\ m.imdb_id # None THEN <<m.imdb_id>> ELSE << >>
    IN  first \o SelectSeq(m.tags, NonEmpty)

\* _add_tags
add_tags(m) ==
    LET NotId(x) == x # "" /\ x # m.imdb_id
        first == IF m.imdb_id # "" /\ m.imdb_id # None THEN <<m.imdb_id>> ELSE << >>
    IN  first \o SelectSeq(m.tags, NotId)

\* _add_unique_ids and _add_main_id
add_unique_ids(m) ==
    IF m.imdb_id # "" /\ m.imdb_id # None
    THEN <<[type |-> "imdb", text |-> m.imdb_id], [type |-> "tmdb", text |-> m.imdb_id],
           [type |-> "tvdb", text |-> m.imdb_id]>>
    ELSE << >>

add_main_id(m) == IF m.imdb_id # "" /\ m.imdb_id # None THEN <<m.imdb_id>> ELSE << >>

\* the Python value False, and str() of the values a simple field takes
PyFalse == "<False>"

str(v) == IF v = PyFalse THEN "False" ELSE v

\* "if value": None, "" and False are falsy
truthy(v) == v \notin {None, "", PyFalse}

LockedFields == "Name|OriginalTitle|SortName|CommunityRating|CriticRating|Tagline|Overview|OfficialRating|Genres|Cast|Studios|Tags"

\* DEFAULT_VALUES as the class body defines it
DEFAULT_VALUES ==
    [outline |-> "", tagline |-> "", customrating |-> "XXX", rating |-> "",
     criticrating |-> "", studio |-> "", runtime |-> "0", lockdata |-> PyFalse,
     lockedfields |-> LockedFields, mpaa |-> "XXX"]

\* the __init__ of the template class named kind: self.DEFAULT_VALUES is
\* the class dict, and update() changes it in place
template_init(kind, dv) ==
    CASE kind = "adult" ->
            [dv EXCEPT !.mpaa = "XXX", !.customrating = "XXX", !.rating = "",
                       !.criticrating = "", !.lockdata = PyFalse,
                       !.lockedfields = LockedFields, !.outline = "",
                       !.tagline = "", !.studio = ""]
      [] kind = "music" ->
            [dv EXCEPT !.mpaa = "G", !.customrating = "G", !.runtime = "4"]
      [] OTHER -> dv

\* TemplateManager(): the three templates, constructed in this order
template_manager_init(dv) ==
    template_init("music", template_init("adult", template_init("standard", dv)))

\* _add_simple_field for a field without a rule of its own: the texts of
\* the elements it adds (none or one), value being the attribute read
simple_field(dv, name, value) ==
    LET v == IF value \in {None, ""}
             THEN (IF name \in DOMAIN dv THEN dv[name] ELSE "")
             ELSE value
    IN  IF truthy(v) \/ name \in REQUIRED_FIELDS THEN <<str(v)>> ELSE << >>

NoDocument == [root |-> None]

\* datetime.now().strftime("%Y-%m-%d %H:%M:%S") at two moments
Timestamps == {"2026-11-02 10:00:00", "2026-11-02 10:00:01"}

NotRendered == [template |-> None, err |-> "none", doc |-> NoDocument]

\* create_nfo_xml of the template named t: the exception it raises or
\* "none", the document (its elements, by name), and the data model it
\* leaves.  The sorttitle rule is the first to read movie_data.imdb_id,
\* before any genre is added.
create_nfo_xml(t, m, now, dv) ==
    IF validate_data(m) # "none"
    THEN [template |-> t, err |-> validate_data(m), doc |-> NoDocument, md |-> m]
    ELSE IF m.imdb_id = NoAttr
    THEN [template |-> t, err |-> "AttributeError", doc |-> NoDocument, md |-> m]
    ELSE [template |-> t, err |-> "none",
          doc |-> [lockdata |-> simple_field(dv, "lockdata", None),
                   lockedfields |-> simple_field(dv, "lockedfields", None),
                   mpaa |-> simple_field(dv, "mpaa", m.mpaa),
                   dateadded |-> now, title |-> m.title, originaltitle |-> m.title,
                   sorttitle |-> IF m.imdb_id # "" /\ m.title # ""
                                 THEN m.imdb_id \o " " \o m.title ELSE m.title,
                   genre |-> add_genres(m).emitted, tag |-> add_tags(m),
                   uniqueid |-> add_unique_ids(m), id |-> add_main_id(m)],
          md  |-> [m EXCEPT !.genres = add_genres(m).stored]]

----------------------------------------------------------------------------
(* run.  A run call blocks at its request, at each console read and at the *)
(* file write; pc is the call's position between them:                    *)
(*   "idle"    no call made yet        "correct"  in manual_input_correction *)
(*   "scrape"  in scrape_movie_info    "create"   in create_nfo_file         *)
(*   "prompt"  at the y/n/auto prompt  "done"     the call has returned      *)

NoValue == "no value"
PlaceholderYear == "2023"
ClockYears == {"2026"}

Configs == [run_mode : RunModes, manual_input : BOOLEAN,
            retry_attempts : {0, RetryAttempts}]

\* no template call made by a caller yet
TemplateIdle ==
    /\ data = EmptyMovieData
    /\ renders = << >>
    /\ default_values = DEFAULT_VALUES
    /\ templates = {}

\* a rating argument: given or None, and its text as a sequence of tokens
\* (a token is a blank or a run of other characters; "" is << >>)
Absent == [given |-> FALSE, text |-> << >>]
Given(t) == [given |-> TRUE, text |-> t]

RatingIdle ==
    /\ rating_in = Absent
    /\ sanitized = << >>

\* dict.update: b's entries over a's
Update(a, b) ==
    [k \in DOMAIN a \cup DOMAIN b |-> IF k \in DOMAIN b THEN b[k] ELSE a[k]]

EmptyDict == [k \in {} |-> None]

\* settings.DEFAULT_CONFIG, the keys that the modelled code reads (there is
\* no run_mode key)
DEFAULT_CONFIG ==
    [timeout |-> 10, retry_attempts |-> RetryAttempts, output_format |-> "nfo",
     user_agent |-> "Mozilla/5.0", manual_input |-> TRUE]

\* settings.SITE_CONFIGS as the module defines it
SITE_CONFIGS ==
    ("ck-download" :> [name |-> "CK-Download", domain |-> "ck-download",
                       default_studio |-> "CK-Download"])
    @@ ("trance-video" :> [name |-> "Trance-Video", domain |-> "trance-video.com",
                           default_studio |-> "Trance-Video", default_runtime |-> "30"])

\* ConfigManager(): config = DEFAULT_CONFIG.copy(), site_configs =
\* SITE_CONFIGS.copy(), a copy of the outer dict only; no config file found
ConfigManagerNew ==
    /\ cm_config = DEFAULT_CONFIG
    /\ cm_added = EmptyDict

CfgIdle ==
    /\ site_profiles = SITE_CONFIGS
    /\ ConfigManagerNew
    /\ cm_last = "__init__"
    /\ cm_ops = 0

FactoryIdle == factory_calls = << >>

NoArgs == [url |-> << >>]

MainIdle ==
    /\ main_args = NoArgs
    /\ main_pc = "idle"
    /\ main_path = "none"
    /\ exit_code = << >>

MenuIdle ==
    /\ menu_pc = "off"
    /\ menu_log = << >>

\* a value given to a validator: a text, as the sequence of its characters,
\* or a number
TextValue(t) == [kind |-> "str", text |-> t, n |-> 0]
IntValue(n) == [kind |-> "int", text |-> << >>, n |-> n]

NotValidated == [field |-> "not called", year |-> "not called"]

ValidatorIdle ==
    /\ year_in = TextValue(<< >>)
    /\ year_out = NotValidated

\* every component but c unused
IdleBut(c) ==
    /\ IF c = "validator" THEN TRUE ELSE ValidatorIdle
    /\ IF c = "menu" THEN TRUE ELSE MenuIdle
    /\ IF c = "main" THEN TRUE ELSE MainIdle
    /\ IF c = "factory" THEN TRUE ELSE FactoryIdle
    /\ IF c = "cfg" THEN TRUE ELSE CfgIdle
    /\ IF c = "template" THEN TRUE ELSE TemplateIdle
    /\ IF c = "rating" THEN TRUE ELSE RatingIdle

LibIdle == IdleBut("generator")

\* __init__
GeneratorInit ==
    /\ site \in Sites
    /\ config \in Configs
    /\ run_mode = config.run_mode
    /\ movie_data = EmptyMovieData
    /\ pc = "idle"
    /\ url = << >>
    /\ page = NoPage
    /\ scrape_result = "none"
    /\ last_choice = "none"
    /\ log = << >>
    /\ http_gets = 0
    /\ result = NoValue
    /\ raised = "none"
    /\ caught = "none"
    /\ files = {}
    /\ start_mode = config.run_mode
    /\ runs = 0
    /\ clock_year \in ClockYears
    /\ rendered = NotRendered

Init == GeneratorInit /\ LibIdle

\* run's handler under a plausible slip: "except NFOGeneratorError"
run_catches_own_errors(e) == e \in NFOGeneratorErrors

\* "except Exception as e"
run_catches(e) == e \in ExceptionKinds

\* the call returns v
Returns(v) ==
    /\ pc' = "done"
    /\ result' = v
    /\ raised' = "none"
    /\ caught' = "none"

\* exception e reaches run's handler: "return None" when it catches e
Fails(e) ==
    /\ pc' = "done"
    /\ result' = IF run_catches(e) THEN None ELSE NoValue
    /\ raised' = IF run_catches(e) THEN "none" ELSE e
    /\ caught' = IF run_catches(e) THEN e ELSE "none"

\* the step that follows a scrape, by the run-mode policy; in interactive
\* mode _should_manual_correct returns False at once when manual_input is off
after_scrape(mode, cfg) ==
    IF mode = "auto" THEN "create"
    ELSE IF mode = "manual" THEN "correct"
    ELSE IF ~cfg.manual_input THEN "create"
    ELSE "prompt"

\* the data model run falls back to after a scrape that returned False
placeholder(s, u) ==
    MovieData([product_id |-> Or(extract_product_id(s, u), "unknown"),
               year |-> PlaceholderYear, runtime |-> "120",
               studio |-> site_name(s)]).md

\* run(u) is called: the URL check
RunStart(u) ==
    /\ pc \in {"idle", "done"}
    /\ runs < MaxRuns
    /\ runs' = runs + 1
    /\ url' = u
    /\ start_mode' = run_mode
    /\ page' = NoPage
    /\ scrape_result' = "none"
    /\ last_choice' = "none"
    /\ log' = << >>
    /\ http_gets' = 0
    /\ rendered' = NotRendered
    /\ IF ~validate_url(site, u)
       THEN Returns(None)
       ELSE /\ pc' = "scrape"
            /\ result' = NoValue
            /\ raised' = "none"
            /\ caught' = "none"
    /\ UNCHANGED <<site, config, run_mode, movie_data, files, clock_year>>
    /\ UNCHANGED lib_vars

\* scrape_movie_info(url) and what run does with its outcome
Scrape ==
    /\ pc = "scrape"
    /\ \E net \in NetOutcomes, p \in PagesOf(site),
          how \in (IF site = "contract" THEN ContractOutcomes ELSE {"True"}) :
          \E r \in {scrape_movie_info(site, config, url, net, p, clock_year, movie_data, how)} :
              /\ http_gets' = http_gets + r.gets
              /\ page' = IF net = "ok" THEN p ELSE NoPage
              /\ scrape_result' = IF r.ret = "raise" THEN r.err ELSE r.ret
              /\ log' = Append(log, "scrape")
              /\ IF r.ret = "raise"
                 THEN /\ movie_data' = r.md
                      /\ Fails(r.err)
                 ELSE IF r.ret = "False" /\ run_mode = "auto"
                 THEN /\ movie_data' = r.md
                      /\ Returns(None)
                 ELSE /\ movie_data' = IF r.ret = "False" THEN placeholder(site, url) ELSE r.md
                      /\ pc' = after_scrape(run_mode, config)
                      /\ UNCHANGED <<result, raised, caught>>
    /\ UNCHANGED <<site, config, run_mode, url, last_choice, files, start_mode,
                   runs, clock_year, rendered>>
    /\ UNCHANGED lib_vars

\* one input() of _should_manual_correct
Prompt ==
    /\ pc = "prompt"
    /\ \/ \E line \in TypedLines :
            \E a \in {prompt_answer(line, run_mode)} :
                /\ last_choice' = lower_strip(line)
                /\ run_mode' = a.mode
                /\ pc' = CASE a.ret = "True"  -> "correct"
                           [] a.ret = "False" -> "create"
                           [] OTHER           -> "prompt"
                /\ UNCHANGED <<result, raised, caught>>
       \/ \E e \in InputFailures :
            /\ last_choice' = e
            /\ run_mode' = run_mode
            /\ Fails(e)
    /\ UNCHANGED <<site, config, movie_data, url, page, scrape_result, log,
                   http_gets, files, start_mode, runs, clock_year, rendered>>
    /\ UNCHANGED lib_vars

\* manual_input_correction()
Correct ==
    /\ pc = "correct"
    /\ log' = Append(log, "correct")
    /\ \E a \in Answers, answered \in StopPoints \cup {Len(Prompts)}, stop \in InputFailures :
          \E c \in {manual_input_correction(movie_data, a, answered, stop)} :
              /\ movie_data' = c.md
              /\ IF c.err # "none"
                 THEN Fails(c.err)
                 ELSE /\ pc' = "create"
                      /\ UNCHANGED <<result, raised, caught>>
    /\ UNCHANGED <<site, config, run_mode, url, page, scrape_result, last_choice,
                   http_gets, files, start_mode, runs, clock_year, rendered>>
    /\ UNCHANGED lib_vars

\* create_nfo_file() and run's return
Create ==
    /\ pc = "create"
    /\ \E io \in IoOutcomes :
          \E f \in {create_nfo_file(movie_data, io)} :
              /\ files' = IF f.disk = "none" THEN files ELSE files \cup {f.name}
              /\ log' = log \o <<"create">> \o
                        (IF f.disk = "none" THEN << >> ELSE <<f.disk>>)
              /\ IF f.err # "none" THEN Fails(f.err) ELSE Returns(f.name)
    /\ UNCHANGED <<site, config, run_mode, movie_data, url, page, scrape_result,
                   last_choice, http_gets, start_mode, runs, clock_year, rendered>>
    /\ UNCHANGED lib_vars

\* a caller renders the generator's data model through the template named
\* t of a TemplateManager it constructs
Render(t) ==
    /\ pc \in {"idle", "done"}
    /\ default_values' = template_manager_init(default_values)
    /\ templates' = TemplateNames
    /\ \E now \in Timestamps :
          \E x \in {create_nfo_xml(t, movie_data, now, default_values')} :
              /\ rendered' = [template |-> x.template, err |-> x.err, doc |-> x.doc]
              /\ movie_data' = x.md
    /\ UNCHANGED <<site, config, run_mode, pc, url, page, scrape_result,
                   last_choice, log, http_gets, result, raised, caught, files,
                   start_mode, runs, clock_year>>
    /\ UNCHANGED <<data, renders, rating_vars, cfg_vars, factory_vars, main_vars,
                   menu_vars, val_vars>>

Next ==
    \/ \E u \in Urls : RunStart(u)
    \/ Scrape
    \/ Prompt
    \/ Correct
    \/ Create
    \/ \E t \in TemplateNames : Render(t)

Spec == Init /\ [][Next]_vars

----------------------------------------------------------------------------
(* The template library called directly: a caller builds a MovieData, may *)
(* assign it an imdb_id attribute (the dataclass declares none), and      *)
(* renders it.                                                            *)

SampleId == "GV-001"
OtherId  == "AV-7"

CallerTitles == {"", "Movie"}
CallerGenres == {<< >>, <<"Drama">>, <<"Drama", "Action">>, <<"GV", "Drama">>,
                 <<"Drama", "", "GV">>}
CallerTags   == {<< >>, <<"Action">>, <<SampleId, "Action">>,
                 <<"Action", SampleId, "", "Action">>}

CallerMpaa   == {"", "R"}

CallerData ==
    {MovieData([title |-> t, genres |-> g, tags |-> s, mpaa |-> p]).md :
        t \in CallerTitles, g \in CallerGenres, s \in CallerTags, p \in CallerMpaa}

AssignedIds == {"", SampleId, OtherId}

\* a generator that stays unused
GeneratorUnused ==
    /\ GeneratorInit
    /\ site = "contract"
    /\ config = [run_mode |-> "auto", manual_input |-> TRUE,
                 retry_attempts |-> RetryAttempts]

TemplateInit ==
    /\ GeneratorUnused
    /\ IdleBut("template")
    /\ data \in CallerData
    /\ renders = << >>
    /\ default_values = DEFAULT_VALUES
    /\ templates = {}

\* movie_data.imdb_id = v, before the first render
AssignImdbId(v) ==
    /\ renders = << >>
    /\ data.imdb_id = NoAttr
    /\ data' = [data EXCEPT !.imdb_id = v]
    /\ UNCHANGED <<renders, default_values, templates, run_vars, rating_vars, cfg_vars, factory_vars, main_vars, menu_vars, val_vars>>

\* TemplateManager()
NewTemplateManager ==
    /\ templates = {}
    /\ templates' = TemplateNames
    /\ default_values' = template_manager_init(default_values)
    /\ UNCHANGED <<data, renders, run_vars, rating_vars, cfg_vars, factory_vars,
                   main_vars, menu_vars, val_vars>>

\* AdultNFOTemplate() or MusicNFOTemplate(), constructed by a caller before
\* the first render
NewTemplate(kind) ==
    /\ renders = << >>
    /\ default_values' = template_init(kind, default_values)
    /\ UNCHANGED <<data, renders, templates, run_vars, rating_vars, cfg_vars,
                   factory_vars, main_vars, menu_vars, val_vars>>

\* template_manager.get_template(t).create_nfo_xml(data)
CreateNfoXml(t) ==
    /\ t \in templates
    /\ Len(renders) < MaxRenders
    /\ \E now \in Timestamps :
          \E x \in {create_nfo_xml(t, data, now, default_values)} :
              /\ renders' = Append(renders, [template |-> t, given |-> data,
                                             err |-> x.err, doc |-> x.doc])
              /\ data' = x.md
    /\ UNCHANGED <<default_values, templates, run_vars, rating_vars, cfg_vars, factory_vars, main_vars, menu_vars, val_vars>>

TemplateNext ==
    \/ NewTemplateManager
    \/ \E kind \in {"adult", "music"} : NewTemplate(kind)
    \/ \E v \in AssignedIds : AssignImdbId(v)
    \/ \E t \in TemplateNames : CreateNfoXml(t)

TemplateSpec == TemplateInit /\ [][TemplateNext]_vars

----------------------------------------------------------------------------
(* The actor list of a MovieData: a caller adds actors one by one, and the  *)
(* correction dialogue replaces the list by the actors the operator types. *)

ActorNames == {"A", "B"}
ActorRoles == {"", "Actor"}

\* the operator's answers: every text kept, the actor list replaced or not
ActorAnswers ==
    [title : {""}, year : {""}, premiered : {<< >>}, director : {""},
     runtime : {""}, modify_actors : BOOLEAN,
     actors : {<< >>, <<"C">>, <<"C", "D">>},
     modify_genres : {FALSE}, genres : {<< >>}]

ActorInit ==
    /\ GeneratorUnused
    /\ IdleBut("template")
    /\ TemplateIdle

\* movie_data.add_actor(name, role)
AddActor(name, role) ==
    /\ Len(data.actors) < MaxActors
    /\ data' = add_actor(data, name, role)
    /\ UNCHANGED <<renders, default_values, templates, run_vars, rating_vars, cfg_vars, factory_vars, main_vars, menu_vars, val_vars>>

\* manual_input_correction() on the data model; input() may fail at a prompt
CorrectActors(a, answered, stop) ==
    /\ data' = manual_input_correction(data, a, answered, stop).md
    /\ UNCHANGED <<renders, default_values, templates, run_vars, rating_vars, cfg_vars, factory_vars, main_vars, menu_vars, val_vars>>

ActorNext ==
    \/ \E name \in ActorNames, role \in ActorRoles : AddActor(name, role)
    \/ \E a \in ActorAnswers, answered \in StopPoints \cup {Len(Prompts)},
          stop \in InputFailures :
          CorrectActors(a, answered, stop)

ActorSpec == ActorInit /\ [][ActorNext]_vars

----------------------------------------------------------------------------
(* CustomRatingValidator *)

VALID_RATINGS ==
    <<"", "TV-Y", "APPROVED", "G", "E", "EC", "TV-G", "TV-Y7", "TV-Y7-FV", "PG",
      "TV-PG", "PG-13", "T", "TV-14", "R", "M", "TV-MA", "NC-17", "AO", "RP",
      "UR", "NR", "X", "XXX">>

Blank == " "

\* the token sequence of a text without blanks
Text(r) == IF r = "" THEN << >> ELSE <<r>>

ValidTexts == {Text(VALID_RATINGS[i]) : i \in 1..Len(VALID_RATINGS)}

RECURSIVE lstrip(_)
lstrip(t) == IF t # << >> /\ Head(t) = Blank THEN lstrip(Tail(t)) ELSE t

RECURSIVE rstrip(_)
rstrip(t) ==
    IF t # << >> /\ t[Len(t)] = Blank THEN rstrip(SubSeq(t, 1, Len(t) - 1)) ELSE t

\* str.strip()
strip(t) == rstrip(lstrip(t))

\* "rating in cls.VALID_RATINGS"
validate_rating(t) == t \in ValidTexts

get_default_rating == <<"XXX">>

\* sanitize_rating under a plausible slip: the value is tested trimmed and
\* returned as given
sanitize_rating_untrimmed(r) ==
    IF ~r.given THEN get_default_rating
    ELSE IF validate_rating(strip(r.text)) THEN r.text
    ELSE get_default_rating

sanitize_rating(r) ==
    IF ~r.given THEN get_default_rating
    ELSE IF validate_rating(strip(r.text)) THEN strip(r.text)
    ELSE get_default_rating

\* the texts tried: every listed rating, and texts that are not ratings (a
\* lower-case one, the text of a number, one with a blank inside)
RatingBodies ==
    ValidTexts \cup {<<"pg-13">>, <<"not-a-rating">>, <<"18">>, <<"TV", Blank, "MA">>}

Paddings == {<< >>, <<Blank>>, <<Blank, Blank>>}

RatingInputs ==
    {Absent} \cup {Given(l \o b \o r) : l \in Paddings, b \in RatingBodies, r \in Paddings}

RatingInit ==
    /\ GeneratorUnused
    /\ IdleBut("rating")
    /\ rating_in \in RatingInputs
    /\ sanitized = << >>

\* sanitize_rating(rating_in), then sanitize_rating of the last result
Sanitize ==
    /\ Len(sanitized) < MaxSanitize
    /\ sanitized' = Append(sanitized,
                           sanitize_rating(IF sanitized = << >> THEN rating_in
                                           ELSE Given(sanitized[Len(sanitized)])))
    /\ UNCHANGED <<rating_in, run_vars, template_vars, cfg_vars, factory_vars, main_vars, menu_vars, val_vars>>

RatingNext == Sanitize

RatingSpec == RatingInit /\ [][RatingNext]_vars

----------------------------------------------------------------------------
(* ConfigManager *)

\* self.site_configs: the shared dicts of SITE_CONFIGS and the added entries
site_configs(shared, added) == Update(shared, added)

\* reset_to_defaults: what is left of the added entries after
\* self.site_configs = SITE_CONFIGS.copy()
reset_added(added) == EmptyDict

\* set_site_config(site, c): the shared dicts and the added entries it leaves
set_site_config(shared, added, st, c) ==
    IF st \in DOMAIN shared
    THEN [shared |-> [shared EXCEPT ![st] = Update(@, c)], added |-> added]
    ELSE IF st \in DOMAIN added
    THEN [shared |-> shared, added |-> [added EXCEPT ![st] = Update(@, c)]]
    ELSE [shared |-> shared, added |-> Update(added, st :> c)]

\* the overrides tried
GeneralOverrides == {[timeout |-> 5], [run_mode |-> "auto"]}
SiteOverrides ==
    {[site |-> "ck-download", config |-> [domain |-> "ck-mirror"]],
     [site |-> "trance-video", config |-> [default_runtime |-> "45"]],
     [site |-> "trance-music", config |-> [name |-> "Trance", domain |-> "trance-video.com"]]}

ConfigDicts ==
    {[general |-> g] : g \in GeneralOverrides}
    \cup {[sites |-> o.site :> o.config] : o \in SiteOverrides}
    \cup {[general |-> [timeout |-> 5],
           sites |-> "ck-download" :> [default_studio |-> "CK"]]}

CfgInit ==
    /\ GeneratorUnused
    /\ IdleBut("cfg")
    /\ CfgIdle

CfgDone(op) ==
    /\ cm_ops < MaxConfigOps
    /\ cm_ops' = cm_ops + 1
    /\ cm_last' = op
    /\ UNCHANGED <<run_vars, template_vars, rating_vars, factory_vars, main_vars, menu_vars, val_vars>>

\* set(key, value)
CmSet(g) ==
    /\ CfgDone("set")
    /\ cm_config' = Update(cm_config, g)
    /\ UNCHANGED <<site_profiles, cm_added>>

\* set_site_config(site, config)
CmSetSiteConfig(o) ==
    /\ CfgDone("set_site_config")
    /\ \E x \in {set_site_config(site_profiles, cm_added, o.site, o.config)} :
          /\ site_profiles' = x.shared
          /\ cm_added' = x.added
    /\ UNCHANGED cm_config

\* update_from_dict(d), d with one site at most
CmUpdateFromDict(d) ==
    /\ CfgDone("update_from_dict")
    /\ cm_config' = IF "general" \in DOMAIN d THEN Update(cm_config, d.general)
                    ELSE cm_config
    /\ IF "sites" \in DOMAIN d
       THEN \E st \in DOMAIN d.sites :
              \E x \in {set_site_config(site_profiles, cm_added, st, d.sites[st])} :
                  /\ site_profiles' = x.shared
                  /\ cm_added' = x.added
       ELSE UNCHANGED <<site_profiles, cm_added>>

\* reset_to_defaults()
CmReset ==
    /\ CfgDone("reset_to_defaults")
    /\ cm_config' = DEFAULT_CONFIG
    /\ cm_added' = reset_added(cm_added)
    /\ UNCHANGED site_profiles

\* a later ConfigManager() of the same process takes the place of this one
CmNew ==
    /\ CfgDone("__init__")
    /\ cm_config' = DEFAULT_CONFIG
    /\ cm_added' = EmptyDict
    /\ UNCHANGED site_profiles

CfgNext ==
    \/ \E g \in GeneralOverrides : CmSet(g)
    \/ \E o \in SiteOverrides : CmSetSiteConfig(o)
    \/ \E d \in ConfigDicts : CmUpdateFromDict(d)
    \/ CmReset
    \/ CmNew

CfgSpec == CfgInit /\ [][CfgNext]_vars

----------------------------------------------------------------------------
(* GeneratorFactory *)

\* self._generators, in insertion order: the identifier and, under the same
\* name, the generator class registered for it
Registry == <<"ck-download", "trance-music">>

Registered == {Registry[i] : i \in 1..Len(Registry)}

\* get_site_config(site)
get_site_config(shared, added, st) ==
    IF st \in DOMAIN site_configs(shared, added)
    THEN [err |-> "none", config |-> site_configs(shared, added)[st]]
    ELSE [err |-> "ConfigurationError", config |-> EmptyDict]

\* get_generator_config(site): the general settings under the site's
get_generator_config(general, shared, added, st) ==
    IF get_site_config(shared, added, st).err # "none"
    THEN get_site_config(shared, added, st)
    ELSE [err |-> "none",
          config |-> Update(general, get_site_config(shared, added, st).config)]

NoGenerator == [err |-> "none", gen |-> None, config |-> EmptyDict]

\* create_generator(site): the exception raised or "none", the class of the
\* generator returned and the configuration it was built from
create_generator(general, shared, added, st) ==
    IF st \notin Registered
    THEN [NoGenerator EXCEPT !.err = "ConfigurationError"]
    ELSE IF get_generator_config(general, shared, added, st).err # "none"
    THEN [NoGenerator EXCEPT !.err = get_generator_config(general, shared, added, st).err]
    ELSE [err |-> "none", gen |-> st,
          config |-> get_generator_config(general, shared, added, st).config]

\* str.lower() of a token
lower(tok) ==
    CASE tok = "CK-Download" -> "ck-download"
      [] tok = "Music"       -> "music"
      [] OTHER               -> tok

Lowered(u) == [i \in 1..Len(u) |-> lower(u[i])]

\* the position of the first token tok in u, Len(u) + 1 when there is none
Find(u, tok) ==
    IF \E i \in 1..Len(u) : u[i] = tok
    THEN CHOOSE i \in 1..Len(u) : u[i] = tok /\ \A j \in 1..(i - 1) : u[j] # tok
    ELSE Len(u) + 1

\* urlparse(url).netloc.lower(): from the scheme to the first "/"
netloc(u) == Lowered(SubSeq(u, 2, Find(u, "/") - 1))

\* urlparse(url).path.lower(): from the first "/" to the "?"
path(u) == Lowered(SubSeq(u, Find(u, "/"), Find(u, "?") - 1))

domain_mappings ==
    <<[site |-> "ck-download", keywords |-> {<<"ck-download">>, <<"ckdownload">>}],
      [site |-> "trance-music",
       keywords |-> {<<"trance">>, <<"music">>, <<"electronic">>, <<"dance">>}]>>

keyword_hit(k, u) ==
    \E w \in domain_mappings[k].keywords : Contains(w, netloc(u)) \/ Contains(w, path(u))

\* the first pass, from the i-th registered site on: a site whose
\* configuration cannot be built is skipped
RECURSIVE first_pass(_, _, _, _, _)
first_pass(general, shared, added, u, i) ==
    IF i > Len(Registry) THEN NoGenerator
    ELSE IF /\ get_generator_config(general, shared, added, Registry[i]).err = "none"
            /\ validate_url(Registry[i], u)
    THEN [err |-> "none", gen |-> Registry[i],
          config |-> get_generator_config(general, shared, added, Registry[i]).config]
    ELSE first_pass(general, shared, added, u, i + 1)

\* the fallback pass, from the k-th mapping on
RECURSIVE fallback_pass(_, _, _, _, _)
fallback_pass(general, shared, added, u, k) ==
    IF k > Len(domain_mappings) THEN NoGenerator
    ELSE IF /\ keyword_hit(k, u)
            /\ create_generator(general, shared, added, domain_mappings[k].site).err = "none"
    THEN create_generator(general, shared, added, domain_mappings[k].site)
    ELSE fallback_pass(general, shared, added, u, k + 1)

\* create_generator_from_url(url)
create_generator_from_url(general, shared, added, u) ==
    IF first_pass(general, shared, added, u, 1).gen # None
    THEN first_pass(general, shared, added, u, 1)
    ELSE fallback_pass(general, shared, added, u, 1)

UrlCkUpper   == <<"https://", "CK-Download", ".com", "/", "product/detail/", "26966">>
UrlCkBare    == <<"http://", "ckdownload", ".net", "/">>
UrlMusic     == <<"https://", "example", ".org", "/", "Music", "/", "7">>
UrlQueryOnly == <<"https://", "example", ".org", "/", "watch", "?", "music">>
UrlBoth      == <<"https://", "ck-download", ".com", "/", "?", "trance", "-video", ".com">>

FactoryUrls == Urls \cup {UrlCkUpper, UrlCkBare, UrlMusic, UrlQueryOnly, UrlBoth}

SiteArguments == Registered \cup DOMAIN SITE_CONFIGS \cup {"gay-torrents", "auto"}

FactoryInit ==
    /\ GeneratorUnused
    /\ IdleBut("factory")
    /\ factory_calls = << >>

FactoryDone(call, arg, r) ==
    /\ Len(factory_calls) < MaxFactoryCalls
    /\ factory_calls' = Append(factory_calls,
                               [call |-> call, arg |-> arg, err |-> r.err,
                                gen |-> r.gen, config |-> r.config])
    /\ UNCHANGED <<run_vars, template_vars, rating_vars, cfg_vars, main_vars, menu_vars, val_vars>>

\* factory.create_generator(site)
CreateGenerator(st) ==
    \E r \in {create_generator(cm_config, site_profiles, cm_added, st)} :
        FactoryDone("create_generator", <<st>>, r)

\* factory.create_generator_from_url(url)
CreateGeneratorFromUrl(u) ==
    \E r \in {create_generator_from_url(cm_config, site_profiles, cm_added, u)} :
        FactoryDone("create_generator_from_url", u, r)

FactoryNext ==
    \/ \E st \in SiteArguments : CreateGenerator(st)
    \/ \E u \in FactoryUrls : CreateGeneratorFromUrl(u)

FactorySpec == FactoryInit /\ [][FactoryNext]_vars

----------------------------------------------------------------------------
(* main(): the command-line entry.  One call is modelled, from the parsed   *)
(* arguments to its return; the generator it runs is the run machine       *)
(* above, entered through RunStart with the URL of the command line.       *)

ConfigFileName == "config.json"

\* what is at the --config path: whether a file exists there and the
\* 'general' and 'sites' objects json.load gives (both empty for a file
\* that does not parse, which load_config reports and ignores)
ConfigFile(e, g, s) == [exists |-> e, general |-> g, sites |-> s]

ConfigFiles ==
    {ConfigFile(FALSE, EmptyDict, EmptyDict),
     ConfigFile(TRUE, EmptyDict, EmptyDict),
     ConfigFile(TRUE, [timeout |-> 0], EmptyDict),
     ConfigFile(TRUE, EmptyDict,
                "trance-music" :> [name |-> "Trance", domain |-> "trance-video.com"])}

\* ConfigManager(path): the defaults, then load_config's merge of the
\* file (one site at most)
load_config(shared, file) ==
    IF ~file.exists \/ DOMAIN file.sites = {}
    THEN [general |-> Update(DEFAULT_CONFIG, file.general),
          shared |-> shared, added |-> EmptyDict]
    ELSE LET st == CHOOSE x \in DOMAIN file.sites : TRUE
             x  == set_site_config(shared, EmptyDict, st, file.sites[st])
         IN  [general |-> Update(DEFAULT_CONFIG, file.general),
              shared |-> x.shared, added |-> x.added]

\* validate_config(): the exception it raises, or "none"
validate_config(general, sites) ==
    IF ~({"user_agent", "timeout", "output_format"} \subseteq DOMAIN general)
    THEN "ConfigurationError"
    ELSE IF general.timeout <= 0 THEN "ConfigurationError"
    ELSE IF "retry_attempts" \in DOMAIN general /\ general.retry_attempts < 0
    THEN "ConfigurationError"
    ELSE IF \E st \in DOMAIN sites : ~({"name", "domain"} \subseteq DOMAIN sites[st])
    THEN "ConfigurationError"
    ELSE "none"

\* create_default_config_file(): the exception of save_config, or "none"
create_default_config_file(file, io) ==
    IF ~file.exists /\ io # "ok" THEN "ConfigurationError" ELSE "none"

SiteChoices == {"ck-download", "trance-video", "auto"}

MainUrls == {UrlCkDetail, UrlCkUpper, UrlTrance, UrlOther}

\* the parsed arguments
MainArgs ==
    [url : MainUrls, site : SiteChoices, mode : RunModes, no_manual : BOOLEAN,
     create_config : BOOLEAN, output : {None, "out.nfo"}]

\* "if args.site == 'auto'": the generator main obtains
main_generator(a, general, shared, added) ==
    IF a.site = "auto"
    THEN create_generator_from_url(general, shared, added, a.url)
    ELSE create_generator(general, shared, added, a.site)

\* BaseNfoGenerator.__init__: the settings that the run reads from the
\* merged configuration dict
generator_config(c) ==
    [run_mode |-> IF "run_mode" \in DOMAIN c THEN c.run_mode ELSE "interactive",
     manual_input |-> c.manual_input,
     retry_attempts |-> c.retry_attempts]

\* the two overrides of main, --no-manual and then --mode
main_overrides(a, c) ==
    [config   |-> [c EXCEPT !.manual_input = IF a.no_manual THEN FALSE ELSE @,
                            !.run_mode = IF a.mode # "" THEN a.mode ELSE @],
     run_mode |-> IF a.mode # "" THEN a.mode
                  ELSE IF a.no_manual THEN "auto" ELSE c.run_mode]

\* the exceptions main's four handlers turn into "return 1"
main_handles(e) == e \in BaseExceptionKinds

\* a slip: success reported whatever run returned
run_exit_code_always_zero(nfo_file) == 0

\* "if nfo_file: ... return 0 else: ... return 1"
run_exit_code(nfo_file) == IF nfo_file # None /\ nfo_file # "" THEN 0 ELSE 1

MainInit ==
    /\ GeneratorUnused
    /\ IdleBut("main")
    /\ MainIdle

\* main returns code, leaving by way
MainExit(way, code) ==
    /\ main_pc' = "exited"
    /\ main_path' = way
    /\ exit_code' = <<code>>

\* main() from the ConfigManager to the call of generator.run
MainStart(a, file, io) ==
    /\ main_pc = "idle"
    /\ main_args' = a
    /\ \E L \in {load_config(site_profiles, file)} :
       \E g \in {main_generator(a, L.general, L.shared, L.added)} :
          /\ cm_config' = L.general
          /\ site_profiles' = L.shared
          /\ cm_added' = L.added
          /\ IF a.create_config
             THEN /\ IF create_default_config_file(file, io) # "none"
                     THEN MainExit(create_default_config_file(file, io), 1)
                     ELSE MainExit("--create-config", 0)
                  /\ files' = IF ~file.exists /\ io = "ok"
                              THEN files \cup {ConfigFileName} ELSE files
                  /\ UNCHANGED <<site, config, run_mode>>
             ELSE IF validate_config(L.general, site_configs(L.shared, L.added)) # "none"
             THEN /\ MainExit(validate_config(L.general, site_configs(L.shared, L.added)), 1)
                  /\ UNCHANGED <<site, config, run_mode, files>>
             ELSE IF g.err # "none"
             THEN /\ MainExit(g.err, 1)
                  /\ UNCHANGED <<site, config, run_mode, files>>
             ELSE IF g.gen = None
             THEN /\ MainExit("no generator for the URL", 1)
                  /\ UNCHANGED <<site, config, run_mode, files>>
             ELSE /\ site' = g.gen
                  /\ config' = main_overrides(a, generator_config(g.config)).config
                  /\ run_mode' = main_overrides(a, generator_config(g.config)).run_mode
                  /\ main_pc' = "running"
                  /\ main_path' = "run"
                  /\ UNCHANGED <<exit_code, files>>
    /\ UNCHANGED <<movie_data, pc, url, page, scrape_result, last_choice, log,
                   http_gets, result, raised, caught, start_mode, runs,
                   clock_year, rendered>>
    /\ UNCHANGED <<cm_last, cm_ops>>
    /\ UNCHANGED <<template_vars, rating_vars, factory_vars, menu_vars, val_vars>>

\* generator.run(args.url)
MainRun ==
    /\ main_pc = "running"
    /\ pc = "idle"
    /\ RunStart(main_args.url)

\* Ctrl-C while run waits for the site's answer: KeyboardInterrupt, which
\* no "except Exception" of the generator catches
MainInterrupt ==
    /\ main_pc = "running"
    /\ pc = "scrape"
    /\ Fails("KeyboardInterrupt")
    /\ UNCHANGED <<site, config, run_mode, movie_data, url, page, scrape_result,
                   last_choice, log, http_gets, files, start_mode, runs,
                   clock_year, rendered>>
    /\ UNCHANGED lib_vars

\* run has returned or raised: the rename to --output, the return value
MainFinish ==
    /\ main_pc = "running"
    /\ pc = "done"
    /\ IF raised # "none"
       THEN /\ IF main_handles(raised)
               THEN MainExit(raised, 1)
               ELSE /\ main_pc' = "exited"
                    /\ main_path' = "propagated"
                    /\ exit_code' = exit_code
            /\ files' = files
       ELSE IF run_exit_code(result) # 0
       THEN /\ MainExit("run returned None", run_exit_code(result))
            /\ files' = files
       ELSE IF main_args.output # None /\ result \in files
       THEN \E io \in {"ok", "rename fails"} :
               IF io = "ok"
               THEN /\ MainExit("run returned a file", run_exit_code(result))
                    /\ files' = (files \ {result}) \cup {main_args.output}
               ELSE /\ MainExit("OSError", 1)
                    /\ files' = files
       ELSE /\ MainExit("run returned a file", run_exit_code(result))
            /\ files' = files
    /\ UNCHANGED main_args
    /\ UNCHANGED <<site, config, run_mode, movie_data, pc, url, page,
                   scrape_result, last_choice, log, http_gets, result, raised,
                   caught, start_mode, runs, clock_year, rendered>>
    /\ UNCHANGED <<template_vars, rating_vars, cfg_vars, factory_vars, menu_vars, val_vars>>

MainNext ==
    \/ \E a \in MainArgs, file \in ConfigFiles, io \in {"ok", "open fails"} :
          MainStart(a, file, io)
    \/ MainRun
    \/ Scrape
    \/ MainInterrupt
    \/ MainFinish

MainSpec == MainInit /\ [][MainNext]_vars

----------------------------------------------------------------------------
(* interactive_mode(): the console menu.  One action is one turn of its     *)
(* loop, from the choice typed at the menu to the menu's next display or   *)
(* to the end of the function; menu_log keeps what each turn did.          *)

\* get_supported_sites() of the ConfigManager: the keys of site_configs
ListedSites == <<"ck-download", "trance-video">>

\* "int(input(...).strip()) - 1" for the lines typed at the site-number
\* prompt: the exception raised, or the index
TypedNumbers == {"1", "2", "9", "x"}

site_choice(typed) ==
    CASE typed = "1" -> [err |-> "none", n |-> 0]
      [] typed = "2" -> [err |-> "none", n |-> 1]
      [] typed = "9" -> [err |-> "none", n |-> 8]
      [] OTHER       -> [err |-> "ValueError", n |-> 0]

MenuUrls == {<< >>, UrlCkDetail, UrlOther}

\* how a run call made from the menu ends: it returns (a filename or None,
\* which the menu does not read) or is interrupted
MenuRunOutcomes == {"returned", "KeyboardInterrupt"}

mode_map == ("1" :> "auto") @@ ("2" :> "manual") @@ ("3" :> "interactive")

MenuInit ==
    /\ GeneratorUnused
    /\ IdleBut("menu")
    /\ menu_pc = "menu"
    /\ menu_log = << >>

\* the turn for choice led to what; an exception that reaches the handlers
\* of interactive_mode ends the function, as choice 5 does
MenuTurn(choice, what) ==
    /\ menu_pc = "menu"
    /\ Len(menu_log) < MaxMenuChoices
    /\ menu_log' = Append(menu_log, [choice |-> choice, what |-> what])
    /\ menu_pc' = IF what \in BaseExceptionKinds \cup {"exit"} THEN "ended" ELSE "menu"
    /\ UNCHANGED <<run_vars, template_vars, rating_vars, factory_vars, main_vars,
                   val_vars>>

\* what "generator.run(url)" leads to
menu_run(out) == IF out = "returned" THEN "ran" ELSE out

\* choice 1: a URL, the generator found for it, its run
MenuUrl(u, out) ==
    /\ \E g \in {create_generator_from_url(cm_config, site_profiles, cm_added, u)} :
          MenuTurn("1", IF u = << >> THEN "no URL"
                        ELSE IF g.gen = None THEN "URL not recognised"
                        ELSE menu_run(out))
    /\ UNCHANGED cfg_vars

\* choice 2: a site number, a URL, create_generator(site), its run
MenuSite(typed, u, out) ==
    /\ \E c \in {site_choice(typed)} :
          IF c.err # "none" THEN MenuTurn("2", "not a number")
          ELSE IF ~(0 <= c.n /\ c.n < Len(ListedSites)) THEN MenuTurn("2", "no such site")
          ELSE IF u = << >> THEN MenuTurn("2", "no URL")
          ELSE \E g \in {create_generator(cm_config, site_profiles, cm_added,
                                          ListedSites[c.n + 1])} :
                  MenuTurn("2", IF g.err # "none" THEN g.err ELSE menu_run(out))
    /\ UNCHANGED cfg_vars

\* choice 3: config_manager.set('run_mode', mode) for a listed mode number
MenuMode(typed) ==
    /\ IF typed \in DOMAIN mode_map
       THEN /\ MenuTurn("3", "mode set")
            /\ cm_config' = Update(cm_config, [run_mode |-> mode_map[typed]])
       ELSE /\ MenuTurn("3", "no such mode")
            /\ cm_config' = cm_config
    /\ UNCHANGED <<site_profiles, cm_added, cm_last, cm_ops>>

\* choice 4 (the settings are printed), choice 5 (break), any other line
MenuOther(choice) ==
    /\ MenuTurn(choice, CASE choice = "4" -> "shown"
                          [] choice = "5" -> "exit"
                          [] OTHER -> "invalid choice")
    /\ UNCHANGED cfg_vars

\* input() at the menu raises: Ctrl-C or the end of the input
MenuInputFails(e) ==
    /\ MenuTurn("none", e)
    /\ UNCHANGED cfg_vars

MenuNext ==
    \/ \E u \in MenuUrls, out \in MenuRunOutcomes : MenuUrl(u, out)
    \/ \E typed \in TypedNumbers, u \in MenuUrls, out \in MenuRunOutcomes :
          MenuSite(typed, u, out)
    \/ \E typed \in DOMAIN mode_map \cup {"x"} : MenuMode(typed)
    \/ \E choice \in {"4", "5", "7"} : MenuOther(choice)
    \/ \E e \in InputFailures : MenuInputFails(e)

MenuSpec == MenuInit /\ [][MenuNext]_vars

----------------------------------------------------------------------------
(* DataValidator: validate_field with the rules of VALIDATION_RULES and the *)
(* static validate_year, on the same value.                                *)

Digits == {"0", "1", "2", "3", "8", "9"}
Characters == Digits \cup {"x"}

digit_value(c) ==
    CASE c = "0" -> 0 [] c = "1" -> 1 [] c = "2" -> 2 [] c = "3" -> 3
      [] c = "8" -> 8 [] c = "9" -> 9

\* int(text) of a text of digits
RECURSIVE int(_)
int(t) == IF t = << >> THEN 0 ELSE 10 * int(SubSeq(t, 1, Len(t) - 1)) + digit_value(t[Len(t)])

\* re.match(r'^\d{4}$', text)
matches_year_pattern(t) == Len(t) = 4 /\ \A i \in 1..4 : t[i] \in Digits

\* VALIDATION_RULES["year"]
YearRules == [required |-> TRUE, pattern |-> "4 digits", min_value |-> 1900,
              max_value |-> 2030]

\* "not value": the empty text, the number 0
falsy_value(v) == IF v.kind = "str" THEN v.text = << >> ELSE v.n = 0

\* validate_field('year', v): the exception raised, or "none".  The rules
\* give no length; the pattern is applied to texts only, the range to
\* numbers only.
validate_field_year(v) ==
    IF YearRules.required /\ falsy_value(v) THEN "ValidationError"
    ELSE IF v.kind = "str" /\ ~matches_year_pattern(v.text) THEN "ValidationError"
    ELSE IF v.kind = "int" /\ (v.n < YearRules.min_value \/ v.n > YearRules.max_value)
    THEN "ValidationError"
    ELSE "none"

\* validate_year(year): re.match on a number is a TypeError
validate_year(v) ==
    IF falsy_value(v) THEN "ValidationError"
    ELSE IF v.kind # "str" THEN "TypeError"
    ELSE IF ~matches_year_pattern(v.text) THEN "ValidationError"
    ELSE IF int(v.text) < 1900 \/ int(v.text) > 2030 THEN "ValidationError"
    ELSE "none"

RECURSIVE TextsUpTo(_)
TextsUpTo(n) ==
    IF n = 0 THEN {<< >>}
    ELSE TextsUpTo(n - 1) \cup
         {Append(t, c) : t \in {x \in TextsUpTo(n - 1) : Len(x) = n - 1}, c \in Characters}

YearInputs ==
    {TextValue(t) : t \in TextsUpTo(MaxYearLen)}
    \cup {IntValue(n) : n \in {0, 1800, 1999, 2031}}

ValidatorInit ==
    /\ GeneratorUnused
    /\ IdleBut("validator")
    /\ year_in \in YearInputs
    /\ year_out = NotValidated

\* both validators called on the value
ValidateYear ==
    /\ year_out = NotValidated
    /\ year_out' = [field |-> validate_field_year(year_in), year |-> validate_year(year_in)]
    /\ UNCHANGED <<year_in, run_vars, template_vars, rating_vars, cfg_vars,
                   factory_vars, main_vars, menu_vars>>

ValidatorNext == ValidateYear

ValidatorSpec == ValidatorInit /\ [][ValidatorNext]_vars

----------------------------------------------------------------------------
(* Properties *)

Logged(e) == \E i \in 1..Len(log) : log[i] = e

\* C1: a CK-Download run on a product-detail URL whose page has a title
\* heading and no date or category markup, with no correction by the
\* operator, ends with product_id = the URL's digits, genres = the two
\* default genres, premiered = January 1st of the current year, and returns
\* the name of the written file "<title>.nfo".
C1_CkEndToEnd ==
    (/\ site = "ck-download"
     /\ pc = "done"
     /\ url = UrlCkDetail
     /\ page = BarePage("Sample Movie")
     /\ ~Logged("correct"))
    => /\ movie_data.product_id = "26966"
       /\ movie_data.genres = DefaultGenres
       /\ movie_data.premiered = <<clock_year, "01", "01">>
       /\ result = "Sample Movie.nfo"
       /\ result \in files

\* C2: once the operator has answered "auto" at the prompt of a run that
\* started in interactive mode with manual_input on, run_mode is "auto" and
\* manual_input_correction is not invoked, up to and including the return
\* of that run.
C2_AutoAnswerSkipsCorrection ==
    (last_choice \in AutoAnswers /\ start_mode = "interactive" /\ config.manual_input)
    => (run_mode = "auto" /\ ~Logged("correct"))

C2_Witness ==
    /\ last_choice \in AutoAnswers
    /\ start_mode = "interactive"
    /\ pc = "done"
    /\ result \in files

\* C3: run_mode changes only from "interactive" to "auto" and only at the
\* prompt, by an "auto" answer; a run entered in "auto" or "manual" keeps
\* that mode.
C3_ModeChangesOnlyByAutoAnswer ==
    [][/\ run_mode' # run_mode =>
            (/\ pc = "prompt"
             /\ run_mode = "interactive"
             /\ run_mode' = "auto"
             /\ last_choice' \in AutoAnswers)
       /\ start_mode' \in {"auto", "manual"} => run_mode' = start_mode']_vars

C3_Witness ==
    /\ start_mode = "interactive"
    /\ run_mode = "auto"
    /\ pc = "create"

\* C4: every run call, a second call on the same instance included, is
\* entered in the run mode the generator was configured with.
C4_EveryRunStartsAsConfigured ==
    runs > 0 => start_mode = config.run_mode

\* C5: a scrape that fails (returns False, or raises ScrapingError or
\* NetworkError) while run_mode is not "auto" does not end the run: the data
\* model becomes the placeholder and the run goes on to the correction or
\* the file creation.
C5_FailedScrapeFallsBack ==
    [][(/\ pc = "scrape"
        /\ scrape_result' \in {"False", "ScrapingError", "NetworkError"}
        /\ run_mode # "auto")
       => (/\ pc' \in {"prompt", "correct", "create"}
           /\ movie_data' = placeholder(site, url))]_vars

\* C6: a run on an accepted URL that was entered in "auto" never invokes
\* manual_input_correction and, when the scrape failed, returns absent with
\* no file written; one entered in "manual" invokes manual_input_correction
\* exactly once, right after the scrape and before any file is written,
\* whatever manual_input is.
C6_RunModePolicy ==
    (pc = "done" /\ log # << >>)
    => /\ start_mode = "auto" =>
            /\ ~Logged("correct")
            /\ scrape_result # "True" =>
                  (result = None /\ ~Logged("written") /\ ~Logged("partial"))
       /\ start_mode = "manual" =>
            /\ Len(log) >= 2
            /\ log[1] = "scrape"
            /\ \A i \in 1..Len(log) : log[i] = "correct" <=> i = 2

\* C7: a run call on a URL that does not contain site_domain returns absent
\* at once: no GET, no scrape, no correction, no file, and the data model
\* and run_mode are what they were.
C7_ForeignUrlRejected ==
    [][(runs' # runs /\ ~Contains(site_domain(site), url'))
       => (/\ pc' = "done"
           /\ result' = None
           /\ raised' = "none"
           /\ http_gets' = 0
           /\ log' = << >>
           /\ movie_data' = movie_data
           /\ run_mode' = run_mode
           /\ files' = files)]_vars

C7_Witness ==
    /\ pc = "done"
    /\ runs = 2
    /\ ~Contains(site_domain(site), url)
    /\ log = << >>
    /\ result = None
    /\ movie_data.title # ""
    /\ files # {}

\* C8: no exception (a class derived from Exception) leaves run; a run that
\* has returned gave absent or the name of a file it wrote.
C8_RunNeverPropagatesErrors ==
    /\ raised \notin ExceptionKinds
    /\ (pc = "done" /\ raised = "none") =>
          \/ result = None
          \/ (result \in files /\ Logged("written"))

C8_Witness ==
    /\ pc = "done"
    /\ site = "gay-torrents"
    /\ scrape_result = "TypeError"
    /\ caught = "TypeError"
    /\ result = None

\* C9: a run issues at most one HTTP GET, also when the request fails and
\* retry_attempts is positive.
C9_AtMostOneGet ==
    http_gets <= 1

C9_Witness ==
    /\ pc = "done"
    /\ scrape_result = "NetworkError"
    /\ config.retry_attempts = RetryAttempts
    /\ http_gets = 1

\* C10: with an empty title, create_nfo_xml of each registered template
\* raises ValidationError and yields no document, and create_nfo_file raises
\* ValidationError and writes nothing.
C10_EmptyTitleIsRejected ==
    /\ (rendered # NotRendered /\ movie_data.title = "") =>
          (rendered.err = "ValidationError" /\ rendered.doc = NoDocument)
    /\ (pc = "done" /\ Logged("create") /\ movie_data.title = "") =>
          /\ caught = "ValidationError"
          /\ result = None
          /\ ~Logged("written")
          /\ ~Logged("partial")

C10_Witness ==
    /\ pc = "done"
    /\ Logged("create")
    /\ movie_data.title = ""
    /\ rendered # NotRendered
    /\ rendered.template = "music"

\* C11: under the standard template every data model with a title renders;
\* with no imdb_id (attribute absent, or empty) the document has no id and
\* no uniqueid element, and with imdb_id = v it has one id element v and
\* three uniqueid elements of types imdb, tmdb, tvdb, in that order, each v.
C11_ConditionalIds ==
    \A i \in 1..Len(renders) :
        (renders[i].template = "standard" /\ renders[i].given.title # "")
        => /\ renders[i].err = "none"
           /\ IF renders[i].given.imdb_id \in {NoAttr, ""}
              THEN /\ renders[i].doc.id = << >>
                   /\ renders[i].doc.uniqueid = << >>
              ELSE /\ renders[i].doc.id = <<renders[i].given.imdb_id>>
                   /\ renders[i].doc.uniqueid =
                        [k \in 1..3 |-> [type |-> <<"imdb", "tmdb", "tvdb">>[k],
                                         text |-> renders[i].given.imdb_id]]

IdCount(tags, v) == Cardinality({k \in 1..Len(tags) : tags[k] = v})

HasGV(g) == \E k \in 1..Len(g) : g[k] = "GV"

\* C13: in every rendered document the genre elements contain GV: first,
\* before the stored non-empty genres in their stored order, when the stored
\* list lacks it; alone when the stored list is empty.
C13_GenreForcing ==
    \A i \in 1..Len(renders) :
        renders[i].err = "none" =>
            LET g == renders[i].given.genres
            IN  /\ HasGV(renders[i].doc.genre)
                /\ renders[i].doc.genre =
                      (IF HasGV(g) THEN << >> ELSE <<"GV">>) \o SelectSeq(g, NonEmpty)

C13_Witness ==
    /\ Len(renders) >= 1
    /\ renders[1].err = "none"
    /\ renders[1].template = "adult"
    /\ renders[1].given.genres = <<"Drama", "Action">>
    /\ renders[1].doc.genre = <<"GV", "Drama", "Action">>

Undated(r) == IF r.err = "none" THEN [r.doc EXCEPT !.dateadded = ""] ELSE r.doc

\* C14: two renders in a row of the same MovieData through the same template
\* end alike and give documents equal in every element but dateadded.
C14_RenderTwice ==
    (Len(renders) = 2 /\ renders[1].template = renders[2].template)
    => /\ renders[1].err = renders[2].err
       /\ Undated(renders[1]) = Undated(renders[2])

C14_Witness ==
    /\ Len(renders) = 2
    /\ renders[1].template = renders[2].template
    /\ renders[1].err = "none"
    /\ renders[1].given.genres = <<"Drama">>
    /\ renders[2].given.genres = <<"GV", "Drama">>
    /\ renders[1].doc.dateadded # renders[2].doc.dateadded

\* C15: sanitize_rating returns the trimmed input when that is one of the 24
\* listed ratings and XXX otherwise, None included; the result is a listed
\* rating, and sanitizing it again returns it.
C15_SanitizeRating ==
    /\ Len(VALID_RATINGS) = 24
    /\ Len(sanitized) >= 1 =>
          /\ sanitized[1] \in ValidTexts
          /\ sanitized[1] =
                IF rating_in.given /\ strip(rating_in.text) \in ValidTexts
                THEN strip(rating_in.text) ELSE <<"XXX">>
    /\ Len(sanitized) >= 2 => sanitized[2] = sanitized[1]

C15_Witness ==
    /\ rating_in = Given(<<Blank, "PG-13", Blank, Blank>>)
    /\ sanitized = << <<"PG-13">>, <<"PG-13">> >>

\* C16: right after reset_to_defaults the general settings are
\* DEFAULT_CONFIG and the site profiles are those of SITE_CONFIGS as the
\* module defines them, whatever was set before, on this manager or on an
\* earlier one.
C16_ResetRestoresDefaults ==
    cm_last = "reset_to_defaults"
    => /\ cm_config = DEFAULT_CONFIG
       /\ site_configs(site_profiles, cm_added) = SITE_CONFIGS

\* C17: with the built-in registry and configuration, create_generator
\* raises ConfigurationError exactly for an unregistered identifier; for a
\* registered one it returns a generator of the registered class, built from
\* the general settings merged with that site's profile.
C17_CreateRaisesOnlyForUnregistered ==
    \A i \in 1..Len(factory_calls) :
        factory_calls[i].call = "create_generator" =>
            LET st == factory_calls[i].arg[1]
            IN  /\ factory_calls[i].err = "ConfigurationError" <=> st \notin Registered
                /\ st \in Registered =>
                      /\ factory_calls[i].err = "none"
                      /\ factory_calls[i].gen = st

\* the first registered site whose site_domain occurs in u, None when there
\* is none
FirstDomainMatch(u) ==
    IF \E i \in 1..Len(Registry) : Contains(site_domain(Registry[i]), u)
    THEN Registry[CHOOSE i \in 1..Len(Registry) :
                    /\ Contains(site_domain(Registry[i]), u)
                    /\ \A j \in 1..(i - 1) : ~Contains(site_domain(Registry[j]), u)]
    ELSE None

\* C18: create_generator_from_url returns a generator of the first
\* registered site whose site_domain occurs in the URL, and returns absent
\* when the URL has no registered domain and no fallback keyword.
C18_CreateFromUrl ==
    \A i \in 1..Len(factory_calls) :
        factory_calls[i].call = "create_generator_from_url" =>
            LET u == factory_calls[i].arg
            IN  /\ factory_calls[i].err = "none"
                /\ FirstDomainMatch(u) # None => factory_calls[i].gen = FirstDomainMatch(u)
                /\ (/\ FirstDomainMatch(u) = None
                    /\ \A k \in 1..Len(domain_mappings) : ~keyword_hit(k, u))
                   => factory_calls[i].gen = None

\* run returned a filename to main
RunReturnedFile == raised = "none" /\ result \notin {NoValue, None, ""}

\* the failure paths of main
FailurePaths ==
    NFOGeneratorErrors \cup
    {"no generator for the URL", "run returned None", "KeyboardInterrupt",
     "TypeError", "AttributeError", "EOFError", "OSError"}

\* C19: main always returns 0 or 1; it returns 0 only when run returned a
\* filename or --create-config was given, and 1 on every other path: a
\* configuration error, a generator error, no generator found for the URL,
\* run returning None, any other exception, a keyboard interruption.
C19_ExitCodes ==
    main_pc = "exited" =>
        /\ exit_code \in {<<0>>, <<1>>}
        /\ exit_code = <<0>> => (main_args.create_config \/ RunReturnedFile)
        /\ ~main_args.create_config /\ ~RunReturnedFile => exit_code = <<1>>
        /\ main_path \in FailurePaths => exit_code = <<1>>

C19_Witness ==
    /\ main_pc = "exited"
    /\ main_path = "run returned None"
    /\ http_gets > 0
    /\ exit_code = <<1>>

\* the scrape of the current run has ended and its request had failed
RequestFailed == Logged("scrape") /\ page = NoPage

\* C20: whichever the generator, a scrape_movie_info whose HTTP request
\* fails is left by raising NetworkError, not by another exception or by a
\* return value.
C20_NetworkErrorPropagates == RequestFailed => scrape_result = "NetworkError"

\* C21: the actor at position i of a data model has order i, counted from
\* zero, after any add_actor calls and replacements of the list by the
\* correction dialogue.
C21_ActorOrders ==
    \A i \in 1..Len(data.actors) : data.actors[i].order = i - 1

\* a list the dialogue replaced and a caller then extended
C21_Witness ==
    /\ Len(data.actors) = 3
    /\ data.actors[1].name = "C"
    /\ data.actors[2].name = "D"
    /\ data.actors[3].name = "A"

\* what the latest turn of the menu led to
LastTurn == menu_log[Len(menu_log)].what

\* C22: the menu loop ends only by the exit choice or by an interruption
\* (Ctrl-C, or the console input ending); every other choice, a listed site
\* whose generator cannot be created among them, leads back to the menu.
C22_MenuEndsOnlyByExit ==
    menu_pc = "ended" => LastTurn \in {"exit"} \cup InputFailures

\* the run substituted the placeholder and no dialogue has changed it yet
PlaceholderInPlace ==
    /\ scrape_result = "False"
    /\ pc \in {"prompt", "correct", "create"}
    /\ ~Logged("correct")

\* C23: the placeholder that run substitutes after a failed scrape in a
\* non-auto mode has the product id of the URL ("unknown" when there is
\* none), the current year as text, runtime "120" and the site's name as
\* studio.
C23_PlaceholderFields ==
    PlaceholderInPlace =>
        /\ movie_data.product_id = Or(extract_product_id(site, url), "unknown")
        /\ movie_data.year = clock_year
        /\ movie_data.runtime = "120"
        /\ movie_data.studio = site_name(site)

\* C24: every document rendered by the standard template has one lockdata
\* element with the text "false" and one lockedfields element with the
\* fixed list, whatever the data model holds.
C24_LockElements ==
    \A i \in 1..Len(renders) :
        renders[i].template = "standard" /\ renders[i].err = "none" =>
            /\ renders[i].doc.lockdata = <<"false">>
            /\ renders[i].doc.lockedfields = <<LockedFields>>

\* C25: each template applies its own defaults: a data model with an empty
\* mpaa is rendered with mpaa "XXX" by the adult template and by the
\* standard template, and with mpaa "G" by the music template.
C25_OwnDefaults ==
    \A i \in 1..Len(renders) :
        renders[i].err = "none" /\ renders[i].given.mpaa = "" =>
            renders[i].doc.mpaa =
                IF renders[i].template = "music" THEN <<"G">> ELSE <<"XXX">>

\* C26: with --no-manual on the command line the generator enters run with
\* manual_input off and run_mode "auto", whatever --mode is, and the run
\* does not invoke manual_input_correction.
C26_NoManualForcesAuto ==
    (main_pc = "running" /\ main_args.no_manual) =>
        /\ ~config.manual_input
        /\ run_mode = "auto"
        /\ ~Logged("correct")

\* C27: validate_field('year', v) raises ValidationError for every v that
\* is empty, is not a text of exactly four digits, or stands for a number
\* outside 1900..2030; on a text it raises exactly when validate_year does.
C27_YearFieldValidation ==
    year_out # NotValidated =>
        /\ (\/ falsy_value(year_in)
            \/ (year_in.kind = "str" /\ ~matches_year_pattern(year_in.text))
            \/ (year_in.kind = "str" /\ matches_year_pattern(year_in.text)
                  /\ (int(year_in.text) < 1900 \/ int(year_in.text) > 2030))
            \/ (year_in.kind = "int" /\ (year_in.n < 1900 \/ year_in.n > 2030)))
           => year_out.field = "ValidationError"
        /\ year_in.kind = "str" => year_out.field = year_out.year

\* create_nfo_file was called by the last run and neither open() nor write()
\* failed under it
CreateCalledDiskOk ==
    /\ pc = "done"
    /\ Logged("create")
    /\ caught # "OSError"
    /\ ~Logged("partial")

\* C28: create_nfo_file, called on a data model with a non-empty title,
\* writes the file <title>.nfo and returns that name, whatever the year of
\* the data model is (blank, or a text that is not a number).
C28_FileWrittenForTitle ==
    (CreateCalledDiskOk /\ movie_data.title # "") =>
        /\ Logged("written")
        /\ result = movie_data.title \o ".nfo"
        /\ result \in files

\* C29: a create_nfo_xml call leaves every field of the MovieData it is
\* given as it was, its genres and tags lists included.
C29_RenderLeavesDataAlone ==
    [][Len(renders') > Len(renders) => data' = data]_vars

\* C30: every generator that create_generator_from_url(url) returns, from
\* the pass over the registered generators or from the keyword pass, accepts
\* that url: its validate_url(url) is true.
C30_ReturnedGeneratorAcceptsUrl ==
    \A i \in 1..Len(factory_calls) :
        (/\ factory_calls[i].call = "create_generator_from_url"
         /\ factory_calls[i].gen # None)
            => validate_url(factory_calls[i].gen, factory_calls[i].arg)

====
